---- MODULE Spec2Model ----
(***************************************************************************)
(* Document-collection campaign lifecycle of docchase-backend:             *)
(*   - the reminder scheduler   (src/src/services/reminder-service.ts)     *)
(*   - the inbound webhook      (src/unnamed/part_003, routes/webhooks.ts) *)
(*   - the campaign endpoints   (src/src/routes/campaigns.ts)              *)
(*   - the message transport    (src/unnamed/part_013, lib/twilio.ts)      *)
(* Every handler is cut at its awaits.  Consecutive awaited calls are one   *)
(* action when all but one of them touch only what no other handler reads  *)
(* (the transport, the tables messages, documents and notifications): such *)
(* a call commutes with every step of the other handlers, so the action    *)
(* happens at the instant of the one call the others can observe.          *)
(* Every awaited store or transport call may throw.                        *)
(***************************************************************************)
EXTENDS Integers, Sequences, FiniteSets, Bags, TLC

(***************************************************************************)
(* Bounds of the model.                                                    *)
(***************************************************************************)
NumClients   == 2      \* clients 1..NumClients of the one accountant
MaxTicks     == 3      \* clock advances per behaviour
MaxPassRuns  == 2      \* scheduler passes started per behaviour
MaxHooks     == 1      \* inbound webhook requests per behaviour
MaxLaunches  == 1      \* launch requests per behaviour
MaxPatches   == 1      \* PATCH requests (status or configuration) per behaviour
MaxFaults    == 1      \* store / transport calls that throw per behaviour
MaxInbound   == 2      \* inbound requests per behaviour of SpecInbound
MaxRequests  == 2      \* launch requests per behaviour of SpecLifecycle
MaxQuarters  == 4      \* short clock advances past the start's time of day
QuarterMinutes == 15   \* length of a short clock advance, in minutes

(***************************************************************************)
(* Program constants.                                                      *)
(***************************************************************************)
MinutesPerHour   == 60
MinutesPerDay    == 1440
WindowMinutes    == 60     \* shouldSendNow: timeDiff < 60
DefaultDays1     == 3      \* reminder_1_days || 3
DefaultDays2     == 6      \* reminder_2_days || 6
DefaultDays3     == 9      \* reminder_3_days || 9
DefaultChaseLimit == 3     \* acc.chase_limit || 3
Null             == -1     \* SQL NULL of a TIMESTAMP column

Clients   == 1..NumClients
Campaigns == {1}
Passes    == {1, 2}
Launchers == {1, 2}

\* Steps of the model clock, in minutes: three days at a time.
TickSteps == {3 * MinutesPerDay}

VARIABLES
  now,        \* wall clock, minutes since the start (server clock = NOW())
  campaigns,  \* table campaigns
  cc,         \* table campaign_clients, keyed by <<campaign_id, client_id>>
  acc,        \* the accountant's row
  messages,   \* table messages (a bag of rows)
  documents,  \* table documents (a bag of rows)
  notifications, \* table notifications (a bag of rows)
  transport,  \* messages the provider accepted, per <<kind, enrollment>>
  writes,     \* UPDATEs executed on campaign_clients, per <<column, enrollment>>
  pass,       \* the scheduler passes in flight
  launch,     \* the launch requests in flight
  hook,       \* the inbound webhook request in flight
  flagSeen,   \* per campaign: flag_after_day_9 has been true at some time
  budget,     \* what is left of the bounds above
  create      \* the POST /api/campaigns request in flight

vars  == <<now, campaigns, cc, acc, messages, documents, notifications,
           transport, writes, pass, launch, hook, flagSeen, budget, create>>


(***************************************************************************)
(* Helpers.                                                                *)
(***************************************************************************)
Abs(x) == IF x < 0 THEN -x ELSE x

\* Row order of a result set: by campaign id, then client id.
Rank(e) == e[1] * (NumClients + 1) + e[2]

RECURSIVE RowsOf(_)
RowsOf(S) ==
  IF S = {} THEN <<>>
  ELSE LET first == CHOOSE e \in S : \A f \in S : Rank(e) <= Rank(f)
       IN  <<first>> \o RowsOf(S \ {first})

Range(seq) == {seq[i] : i \in 1..Len(seq)}

AddRow(table, row) == table (+) SetToBag({row})

DigitValue(ch) ==
  CASE ch = "0" -> 0 [] ch = "1" -> 1 [] ch = "2" -> 2 [] ch = "3" -> 3
    [] ch = "4" -> 4 [] ch = "5" -> 5 [] ch = "6" -> 6 [] ch = "7" -> 7
    [] ch = "8" -> 8 [] ch = "9" -> 9

\* Number("10") = 10, Number("00") = 0
RECURSIVE ToNumber(_)
ToNumber(str) ==
  IF Len(str) = 0 THEN 0
  ELSE 10 * ToNumber(SubSeq(str, 1, Len(str) - 1))
         + DigitValue(SubSeq(str, Len(str), Len(str)))

\* sendTime.split(':'): the pieces between the colons
RECURSIVE Split(_)
Split(str) ==
  IF \A i \in 1..Len(str) : SubSeq(str, i, i) # ":" THEN <<str>>
  ELSE LET at == CHOOSE i \in 1..Len(str) :
                   /\ SubSeq(str, i, i) = ":"
                   /\ \A j \in 1..(i - 1) : SubSeq(str, j, j) # ":"
       IN  <<SubSeq(str, 1, at - 1)>> \o Split(SubSeq(str, at + 1, Len(str)))

CurrentHour(t)   == (t % MinutesPerDay) \div MinutesPerHour   \* now.getHours()
CurrentMinute(t) == t % MinutesPerHour                        \* now.getMinutes()

\* shouldSendNow(sendTime, timezone) at wall clock t; the timezone is not read.
ShouldSendNow(sendTime, t) ==
  LET parts    == Split(sendTime)
      hours    == ToNumber(parts[1])
      minutes  == ToNumber(parts[2])
      timeDiff == Abs((CurrentHour(t) * MinutesPerHour + CurrentMinute(t))
                      - (hours * MinutesPerHour + minutes))
  IN  timeDiff < WindowMinutes

\* The comparison with a NULL anchor taken as the epoch.
ElapsedNullAsEpoch(row, days, t) ==
  row.first_message_sent_at <= t - days * MinutesPerDay

\* The interval test met only at the minute the offset is reached.
ElapsedExactly(row, days, t) ==
  /\ row.first_message_sent_at # Null
  /\ row.first_message_sent_at = t - days * MinutesPerDay

\* first_message_sent_at <= NOW() - (days || ' days')::INTERVAL
Elapsed(row, days, t) ==
  /\ row.first_message_sent_at # Null
  /\ row.first_message_sent_at <= t - days * MinutesPerDay

\* The tier-1 query without its status filter.
Eligible1AnyStatus(e, t) ==
  /\ campaigns[e[1]].reminder_day_3 = TRUE
  /\ cc[e].reminder_3_sent_at = Null
  /\ Elapsed(cc[e], campaigns[e[1]].reminder_1_days, t)

\* The tier-1 query without its reminder_3_sent_at IS NULL filter.
Eligible1Resend(e, t) ==
  /\ cc[e].status = "pending"
  /\ campaigns[e[1]].reminder_day_3 = TRUE
  /\ Elapsed(cc[e], campaigns[e[1]].reminder_1_days, t)

\* WHERE clause of sendReminder1's query
Eligible1(e, t) ==
  /\ cc[e].status = "pending"
  /\ campaigns[e[1]].reminder_day_3 = TRUE
  /\ cc[e].reminder_3_sent_at = Null
  /\ Elapsed(cc[e], campaigns[e[1]].reminder_1_days, t)

\* WHERE clause of sendReminder2's query
Eligible2(e, t) ==
  /\ cc[e].status = "pending"
  /\ campaigns[e[1]].reminder_day_6 = TRUE
  /\ cc[e].reminder_6_sent_at = Null
  /\ Elapsed(cc[e], campaigns[e[1]].reminder_2_days, t)

\* The flag query without its flag_after_day_9 filter.
Eligible3AnyFlag(e, t) ==
  /\ cc[e].status = "pending"
  /\ Elapsed(cc[e], campaigns[e[1]].reminder_3_days, t)

\* The flag query without its status filter.
Eligible3AnyStatus(e, t) ==
  /\ campaigns[e[1]].flag_after_day_9 = TRUE
  /\ Elapsed(cc[e], campaigns[e[1]].reminder_3_days, t)

\* WHERE clause of flagFailedClients' query
Eligible3(e, t) ==
  /\ cc[e].status = "pending"
  /\ campaigns[e[1]].flag_after_day_9 = TRUE
  /\ Elapsed(cc[e], campaigns[e[1]].reminder_3_days, t)

Eligible(k, e, t) ==
  CASE k = 1 -> Eligible1(e, t)
    [] k = 2 -> Eligible2(e, t)
    [] k = 3 -> Eligible3(e, t)

\* The rows of the tier's query that pass the send-time filter.
QueryRowsInWindow(k, t) ==
  {e \in DOMAIN cc : Eligible(k, e, t)
                     /\ ShouldSendNow(campaigns[e[1]].reminder_send_time, t)}

\* result.rows of the tier's query
QueryRows(k, t) == {e \in DOMAIN cc : Eligible(k, e, t)}

\* clientsToSend: the rows whose campaign send-time is near the wall clock
ClientsToSend(k, t) ==
  {e \in QueryRows(k, t) : ShouldSendNow(campaigns[e[1]].reminder_send_time, t)}


(***************************************************************************)
(* Initial states.  POST /api/campaigns creates a campaign in 'draft' with *)
(* one campaign_clients row per client id of the request (status           *)
(* 'pending', every timestamp NULL).                                       *)
(***************************************************************************)
SendTimes  == {"10:00:00", "14:30:00"}    \* reminder_send_time, a TIME column
StartOfDay == 10 * MinutesPerHour + 15    \* the model clock starts at 10:15

Enrollments == Campaigns \X Clients
Kinds   == {"request", "reminder1", "reminder2", "reply"}
Columns == {"first_message_sent_at", "reminder_3_sent_at", "reminder_6_sent_at",
            "stuck_at", "received_at"}

NewEnrollment ==
  [status |-> "pending", first_message_sent_at |-> Null,
   reminder_3_sent_at |-> Null, reminder_6_sent_at |-> Null,
   received_at |-> Null, stuck_at |-> Null]

NewCampaign(r3, r6, f9, sendTime) ==
  [status |-> "draft",
   reminder_day_3 |-> r3, reminder_day_6 |-> r6, flag_after_day_9 |-> f9,
   reminder_1_days |-> DefaultDays1, reminder_2_days |-> DefaultDays2,
   reminder_3_days |-> DefaultDays3,
   reminder_send_time |-> sendTime, completed_at |-> Null]

NewAccountant ==
  [subscription_plan |-> "free", chase_limit |-> DefaultChaseLimit, chases_used |-> 0]

OutboundRow(e, status) ==
  [client_id |-> e[2], campaign_id |-> e[1], direction |-> "outbound", status |-> status]

IdlePass ==
  [pc |-> "idle", tier |-> 0, rows |-> <<>>, idx |-> 0,
   success |-> 0, failed |-> 0, flagged |-> 0, errors |-> <<>>,
   handed |-> <<>>, seenCC |-> <<>>, seenCamp |-> <<>>, seenNow |-> Null]

IdleLaunch ==
  [pc |-> "idle", campaign |-> 0, plan |-> "", rows |-> <<>>, idx |-> 0,
   success |-> 0, failed |-> 0, errors |-> <<>>, tried |-> <<>>,
   seenCC |-> <<>>, response |-> 0]

IdleHook ==
  [pc |-> "idle", from |-> <<>>, body |-> "", numMedia |-> "0", mediaUrl0 |-> "",
   client |-> 0, campaign |-> 0, acks |-> 0, outcome |-> ""]

IdleCreate == [pc |-> "idle", campaign |-> 0, client_ids |-> {}]

InitProcesses ==
  /\ pass = [p \in Passes |-> IdlePass]
  /\ launch = [l \in Launchers |-> IdleLaunch]
  /\ hook = IdleHook
  /\ create = IdleCreate

InitBudget ==
  budget = [ticks |-> MaxTicks, passes |-> MaxPassRuns, hooks |-> MaxHooks,
            launches |-> MaxLaunches, patches |-> MaxPatches, faults |-> MaxFaults]

\* A campaign that has just been created.
InitDraft ==
  /\ now = StartOfDay
  /\ \E r3 \in BOOLEAN, f9 \in BOOLEAN, st \in SendTimes :
       /\ campaigns = [c \in Campaigns |-> NewCampaign(r3, TRUE, f9, st)]
       /\ flagSeen = [c \in Campaigns |-> f9]
  /\ cc = [e \in Enrollments |-> NewEnrollment]
  /\ acc = NewAccountant
  /\ messages = EmptyBag
  /\ documents = EmptyBag
  /\ notifications = EmptyBag
  /\ transport = [x \in Kinds \X Enrollments |-> 0]
  /\ writes = [x \in Columns \X Enrollments |-> 0]

\* A campaign that has just been launched (POST /:id/start returned 200): the
\* initial message reached the clients of `sent` and failed for the others.
InitLaunched ==
  /\ now = StartOfDay
  /\ \E f9 \in BOOLEAN, st \in SendTimes :
       /\ campaigns = [c \in Campaigns |->
                         [NewCampaign(TRUE, TRUE, f9, st) EXCEPT !.status = "active"]]
       /\ flagSeen = [c \in Campaigns |-> f9]
  /\ \E sent \in {Clients, {1}} :
       /\ cc = [e \in Enrollments |->
                  IF e[2] \in sent
                  THEN [NewEnrollment EXCEPT !.first_message_sent_at = StartOfDay]
                  ELSE NewEnrollment]
       /\ messages = [row \in {OutboundRow(e, IF e[2] \in sent THEN "queued" ELSE "failed")
                               : e \in Enrollments} |-> 1]
       /\ transport = [x \in Kinds \X Enrollments |->
                         IF x[1] = "request" /\ x[2][2] \in sent THEN 1 ELSE 0]
       /\ writes = [x \in Columns \X Enrollments |->
                      IF x[1] = "first_message_sent_at" /\ x[2][2] \in sent THEN 1 ELSE 0]
  /\ acc = [NewAccountant EXCEPT !.chases_used = 1]
  /\ documents = EmptyBag
  /\ notifications = EmptyBag

Init == InitLaunched /\ InitProcesses /\ InitBudget

InitLaunch == InitDraft /\ InitProcesses /\ InitBudget

\* A function that has finished returns its results (a handler sends its
\* response) before anything else happens: returning is a local step that
\* commutes with every other action.
Quiet ==
  /\ \A p \in Passes : pass[p].pc # "done"
  /\ \A l \in Launchers : launch[l].pc # "done"
  /\ hook.pc # "done"

Spend(what) == [budget EXCEPT ![what] = @ - 1]

\* What an awaited call can do: return, or throw while faults are left.
Outcomes(extra) == {"ok"} \cup (IF budget.faults > 0 THEN extra ELSE {})
Charge(outcome) == IF outcome = "ok" THEN budget ELSE Spend("faults")

(***************************************************************************)
(* The wall clock.                                                         *)
(***************************************************************************)
Tick ==
  /\ Quiet
  /\ budget.ticks > 0
  /\ \E d \in TickSteps : now' = now + d
  /\ budget' = Spend("ticks")
  /\ UNCHANGED <<campaigns, cc, acc, messages, documents, notifications,
                 transport, writes, pass, launch, hook, flagSeen, create>>

(***************************************************************************)
(* sendWhatsAppTemplate(to, templateSid, ...): client.messages.create,     *)
(* then the INSERT of the log row; a throw of either inserts the           *)
(* '(FAILED)' row and rethrows.                                            *)
(*   "ok"             the provider accepted, the row status is 'queued'    *)
(*   "transport_fail" messages.create threw                                *)
(*   "log_fail"       the provider accepted, the INSERT threw              *)
(***************************************************************************)
Accepted(outcome) == outcome \in {"ok", "log_fail"}

TemplateLog(e, outcome) ==
  AddRow(messages, OutboundRow(e, IF outcome = "ok" THEN "queued" ELSE "failed"))

TemplateTransport(kind, e, outcome) ==
  IF Accepted(outcome)
  THEN [transport EXCEPT ![<<kind, e>>] = @ + 1]
  ELSE transport


(***************************************************************************)
(* The scheduler: sendReminder1 (k = 1), sendReminder2 (k = 2) and         *)
(* flagFailedClients (k = 3).  The hourly cron job and                     *)
(* GET /api/test-reminders/all run the three in sequence, the single-tier  *)
(* test endpoints run one of them.                                         *)
(***************************************************************************)
\* results.errors holds one message per failure: <<enrollment, what threw>>.
DbError == <<<<0, 0>>, "throw">>     \* the 'Database error: ...' entry

ReminderKind(k)   == IF k = 1 THEN "reminder1" ELSE "reminder2"
ReminderColumn(k) == IF k = 1 THEN "reminder_3_sent_at" ELSE "reminder_6_sent_at"

\* The function is called: its SELECT and, for tiers 1 and 2, the
\* shouldSendNow filter.
PassBegin(p, k) ==
  /\ Quiet
  /\ pass[p].pc = "idle"
  /\ budget.passes > 0
  /\ \E outcome \in Outcomes({"throw"}) :
       LET rows == IF k = 3 THEN RowsOf(QueryRows(3, now))
                            ELSE RowsOf(ClientsToSend(k, now))
           fresh == [IdlePass EXCEPT !.tier = k]
       IN  /\ pass' = [pass EXCEPT ![p] =
                         IF outcome = "throw"
                         THEN [fresh EXCEPT !.pc = "done", !.errors = <<DbError>>]
                         ELSE IF rows = <<>>
                         THEN [fresh EXCEPT !.pc = "done"]
                         ELSE [fresh EXCEPT !.pc = IF k = 3 THEN "flag" ELSE "send",
                                            !.rows = rows, !.idx = 1,
                                            !.seenCC = cc, !.seenCamp = campaigns,
                                            !.seenNow = now]]
           /\ budget' = [Charge(outcome) EXCEPT !.passes = @ - 1]
  /\ UNCHANGED <<now, campaigns, cc, acc, messages, documents, notifications,
                 transport, writes, launch, hook, flagSeen, create>>

PassStart(p) == \E k \in {1, 2, 3} : PassBegin(p, k)

\* A loop that is left after its current row.
NextRowStop(r, pcLoop) == [r EXCEPT !.pc = "done"]

\* for (const client of ...): on to the next row, or out of the loop.
NextRow(r, pcLoop) ==
  IF r.idx < Len(r.rows)
  THEN [r EXCEPT !.idx = @ + 1, !.pc = pcLoop]
  ELSE [r EXCEPT !.pc = "done"]

\* UPDATE campaign_clients SET reminder_k_sent_at = NOW() WHERE id = $1
StampReminder(e, k) ==
  [cc EXCEPT ![e] = IF k = 1 THEN [@ EXCEPT !.reminder_3_sent_at = now]
                             ELSE [@ EXCEPT !.reminder_6_sent_at = now]]

\* The loop body with the UPDATE of the timestamp ahead of the send.
PassSendStampFirst(p) ==
  /\ Quiet
  /\ pass[p].pc = "send"
  /\ LET r == pass[p]
         e == r.rows[r.idx]
     IN  \E outcome \in Outcomes({"transport_fail", "log_fail", "update_throw"}) :
           LET sent == IF outcome = "update_throw" THEN "ok" ELSE outcome
               h    == IF Accepted(sent)
                       THEN [r EXCEPT !.handed = Append(@, e)] ELSE r
           IN  /\ transport' = TemplateTransport(ReminderKind(r.tier), e, sent)
               /\ messages' = TemplateLog(e, sent)
               /\ cc' = IF outcome # "update_throw" THEN StampReminder(e, r.tier) ELSE cc
               /\ writes' = IF outcome # "update_throw"
                            THEN [writes EXCEPT ![<<ReminderColumn(r.tier), e>>] = @ + 1]
                            ELSE writes
               /\ pass' = [pass EXCEPT ![p] =
                    IF outcome = "ok"
                    THEN NextRow([h EXCEPT !.success = @ + 1], "send")
                    ELSE NextRow([h EXCEPT !.failed = @ + 1,
                                           !.errors = Append(@, <<e, outcome>>)], "send")]
               /\ budget' = Charge(outcome)
  /\ UNCHANGED <<now, campaigns, acc, documents, notifications,
                 launch, hook, flagSeen, create>>

\* The loop body of sendReminder1 / sendReminder2 for the current row:
\* await sendDocumentReminder(...), then the UPDATE of the timestamp.
\*   "update_throw"  the message went out and the UPDATE threw
PassSend(p) ==
  /\ Quiet
  /\ pass[p].pc = "send"
  /\ LET r == pass[p]
         e == r.rows[r.idx]
     IN  \E outcome \in Outcomes({"transport_fail", "log_fail", "update_throw"}) :
           LET sent == IF outcome = "update_throw" THEN "ok" ELSE outcome
               h    == IF Accepted(sent)
                       THEN [r EXCEPT !.handed = Append(@, e)] ELSE r
           IN  /\ transport' = TemplateTransport(ReminderKind(r.tier), e, sent)
               /\ messages' = TemplateLog(e, sent)
               /\ cc' = IF outcome = "ok" THEN StampReminder(e, r.tier) ELSE cc
               /\ writes' = IF outcome = "ok"
                            THEN [writes EXCEPT ![<<ReminderColumn(r.tier), e>>] = @ + 1]
                            ELSE writes
               /\ pass' = [pass EXCEPT ![p] =
                    IF outcome = "ok"
                    THEN NextRow([h EXCEPT !.success = @ + 1], "send")
                    ELSE NextRow([h EXCEPT !.failed = @ + 1,
                                           !.errors = Append(@, <<e, outcome>>)], "send")]
               /\ budget' = Charge(outcome)
  /\ UNCHANGED <<now, campaigns, acc, documents, notifications,
                 launch, hook, flagSeen, create>>

\* UPDATE campaign_clients SET status = 'failed', stuck_at = NOW() WHERE id = $1
MarkFailed(e) == [cc EXCEPT ![e] = [@ EXCEPT !.status = "failed", !.stuck_at = now]]

\* The loop body of flagFailedClients for the current row.
PassFlag(p) ==
  /\ Quiet
  /\ pass[p].pc = "flag"
  /\ LET r == pass[p]
         e == r.rows[r.idx]
     IN  \E outcome \in Outcomes({"throw"}) :
           /\ cc' = IF outcome = "ok" THEN MarkFailed(e) ELSE cc
           /\ writes' = IF outcome = "ok"
                        THEN [writes EXCEPT ![<<"stuck_at", e>>] = @ + 1]
                        ELSE writes
           /\ pass' = [pass EXCEPT ![p] =
                IF outcome = "ok"
                THEN NextRow([r EXCEPT !.flagged = @ + 1], "flag")
                ELSE NextRow([r EXCEPT !.errors = Append(@, <<e, outcome>>)], "flag")]
           /\ budget' = Charge(outcome)
  /\ UNCHANGED <<now, campaigns, acc, messages, documents, notifications,
                 transport, launch, hook, flagSeen, create>>

\* return results
PassReturn(p) ==
  /\ pass[p].pc = "done"
  /\ pass' = [pass EXCEPT ![p] = IdlePass]
  /\ UNCHANGED <<now, campaigns, cc, acc, messages, documents, notifications,
                 transport, writes, launch, hook, flagSeen, budget, create>>

PassStep(p) == PassStart(p) \/ PassSend(p) \/ PassFlag(p) \/ PassReturn(p)

\* runAllReminderChecks: await sendReminder1(); await sendReminder2();
\* await flagFailedClients().  Each function catches its own errors, so the
\* next one is called whatever the last one returned.  ChainNext is that
\* call: the function of tier k has returned and the one of tier k + 1 runs
\* its SELECT; `handed` goes on listing what the run has handed to the
\* transport.
Called(k, handed, outcome) ==
  LET rows == IF k = 3 THEN RowsOf(QueryRows(3, now))
                       ELSE RowsOf(ClientsToSend(k, now))
      fresh == [IdlePass EXCEPT !.tier = k, !.handed = handed]
  IN  IF outcome = "throw"
      THEN [fresh EXCEPT !.pc = "done", !.errors = <<DbError>>]
      ELSE IF rows = <<>>
      THEN [fresh EXCEPT !.pc = "done"]
      ELSE [fresh EXCEPT !.pc = IF k = 3 THEN "flag" ELSE "send",
                         !.rows = rows, !.idx = 1,
                         !.seenCC = cc, !.seenCamp = campaigns, !.seenNow = now]

ChainNext(p) ==
  /\ pass[p].pc = "done"
  /\ pass[p].tier \in {1, 2}
  /\ \E outcome \in Outcomes({"throw"}) :
       /\ pass' = [pass EXCEPT ![p] = Called(pass[p].tier + 1, pass[p].handed, outcome)]
       /\ budget' = Charge(outcome)
  /\ UNCHANGED <<now, campaigns, cc, acc, messages, documents, notifications,
                 transport, writes, launch, hook, flagSeen, create>>

\* flagFailedClients has returned: the run is over.
ChainReturn(p) == pass[p].tier = 3 /\ PassReturn(p)

ChainStep(p) ==
  PassBegin(p, 1) \/ PassSend(p) \/ PassFlag(p) \/ ChainNext(p) \/ ChainReturn(p)

\* cron.schedule('0 * * * *', ...): the job fires again and again, for as
\* long as the process lives; a run starts with sendReminder1's SELECT.
CronBegin(p) ==
  /\ Quiet
  /\ pass[p].pc = "idle"
  /\ \E outcome \in Outcomes({"throw"}) :
       /\ pass' = [pass EXCEPT ![p] = Called(1, <<>>, outcome)]
       /\ budget' = Charge(outcome)
  /\ UNCHANGED <<now, campaigns, cc, acc, messages, documents, notifications,
                 transport, writes, launch, hook, flagSeen, create>>

CronStep(p) ==
  CronBegin(p) \/ PassSend(p) \/ PassFlag(p) \/ ChainNext(p) \/ ChainReturn(p)

(***************************************************************************)
(* POST /api/campaigns/:id/start                                           *)
(***************************************************************************)
Respond(r, code) == [r EXCEPT !.pc = "done", !.response = code]

\* acc.chase_limit || 3
ChaseLimit == IF acc.chase_limit = 0 THEN DefaultChaseLimit ELSE acc.chase_limit

\* The count with the limit test passing at chases_used = chase_limit.
ChasesUsedBelow == acc.chases_used - 1

\* acc.chases_used || 0
ChasesUsed == acc.chases_used

\* SELECT subscription_plan, chase_limit, chases_used; the free-plan limit.
LaunchQuota(l) ==
  /\ Quiet
  /\ launch[l].pc = "idle"
  /\ budget.launches > 0
  /\ \E c \in DOMAIN campaigns, outcome \in Outcomes({"throw"}) :
       LET r == [IdleLaunch EXCEPT !.campaign = c,
                                   !.plan = acc.subscription_plan]
       IN  /\ launch' = [launch EXCEPT ![l] =
                IF outcome = "throw" THEN Respond(r, 500)
                ELSE IF /\ acc.subscription_plan = "free"
                        /\ ChasesUsed >= ChaseLimit
                THEN Respond(r, 403)
                ELSE [r EXCEPT !.pc = "campaign"]]
           /\ budget' = [Charge(outcome) EXCEPT !.launches = @ - 1]
  /\ UNCHANGED <<now, campaigns, cc, acc, messages, documents, notifications,
                 transport, writes, pass, hook, flagSeen, create>>

\* SELECT the campaign (must be 'draft'), the practice name, the roster.
\* No operation changes what the second and third SELECT read, so the three
\* awaits are one step.
LaunchLoad(l) ==
  /\ Quiet
  /\ launch[l].pc = "campaign"
  /\ LET r == launch[l]
         roster == RowsOf({e \in DOMAIN cc : e[1] = r.campaign})
     IN  \E outcome \in Outcomes({"throw"}) :
           /\ launch' = [launch EXCEPT ![l] =
                IF outcome = "throw" THEN Respond(r, 500)
                ELSE IF campaigns[r.campaign].status # "draft" THEN Respond(r, 400)
                ELSE IF roster = <<>> THEN Respond(r, 400)
                ELSE [r EXCEPT !.pc = "send", !.rows = roster, !.idx = 1,
                               !.seenCC = cc]]
           /\ budget' = Charge(outcome)
  /\ UNCHANGED <<now, campaigns, cc, acc, messages, documents, notifications,
                 transport, writes, pass, hook, flagSeen, create>>

\* After the last client the handler goes on to activate the campaign.
LaunchNext(r) ==
  LET n == NextRow(r, "send")
  IN  IF n.pc = "done" THEN [n EXCEPT !.pc = "activate"] ELSE n

\* The UPDATE with WHERE campaign_id = ... in place of WHERE id = ...
MarkFirstSentAll(e) ==
  [f \in DOMAIN cc |->
     IF f[1] = e[1]
     THEN [cc[f] EXCEPT !.first_message_sent_at = now, !.status = "pending"]
     ELSE cc[f]]

\* UPDATE campaign_clients SET first_message_sent_at = $1, status = 'pending'
MarkFirstSent(e) ==
  [cc EXCEPT ![e] = [@ EXCEPT !.first_message_sent_at = now, !.status = "pending"]]

\* The loop body for the current client: await sendDocumentRequest(...),
\* then the UPDATE of campaign_clients.
\*   "update_throw"  the message went out and the UPDATE threw
LaunchSend(l) ==
  /\ Quiet
  /\ launch[l].pc = "send"
  /\ LET r == launch[l]
         e == r.rows[r.idx]
     IN  \E outcome \in Outcomes({"transport_fail", "log_fail", "update_throw"}) :
           LET sent == IF outcome = "update_throw" THEN "ok" ELSE outcome
               t    == [r EXCEPT !.tried = Append(@, e)]
           IN  /\ transport' = TemplateTransport("request", e, sent)
               /\ messages' = TemplateLog(e, sent)
               /\ cc' = IF outcome = "ok" THEN MarkFirstSent(e) ELSE cc
               /\ writes' = IF outcome = "ok"
                            THEN [writes EXCEPT ![<<"first_message_sent_at", e>>] = @ + 1]
                            ELSE writes
               /\ launch' = [launch EXCEPT ![l] =
                    IF outcome = "ok"
                    THEN LaunchNext([t EXCEPT !.success = @ + 1])
                    ELSE LaunchNext([t EXCEPT !.failed = @ + 1,
                                              !.errors = Append(@, <<e, outcome>>)])]
               /\ budget' = Charge(outcome)
  /\ UNCHANGED <<now, campaigns, acc, documents, notifications,
                 pass, hook, flagSeen, create>>

\* UPDATE campaigns SET status = 'active' WHERE id = $1
LaunchActivate(l) ==
  /\ Quiet
  /\ launch[l].pc = "activate"
  /\ LET r == launch[l]
     IN  \E outcome \in Outcomes({"throw"}) :
           /\ campaigns' = IF outcome = "ok"
                           THEN [campaigns EXCEPT ![r.campaign].status = "active"]
                           ELSE campaigns
           /\ launch' = [launch EXCEPT ![l] =
                IF outcome = "throw" THEN Respond(r, 500)
                ELSE IF r.plan = "free" THEN [r EXCEPT !.pc = "increment"]
                ELSE Respond(r, 200)]
           /\ budget' = Charge(outcome)
  /\ UNCHANGED <<now, cc, acc, messages, documents, notifications,
                 transport, writes, pass, hook, flagSeen, create>>

\* UPDATE accountants SET chases_used = chases_used + 1 WHERE id = $1
LaunchIncrement(l) ==
  /\ Quiet
  /\ launch[l].pc = "increment"
  /\ LET r == launch[l]
     IN  \E outcome \in Outcomes({"throw"}) :
           /\ acc' = IF outcome = "ok"
                     THEN [acc EXCEPT !.chases_used = @ + 1] ELSE acc
           /\ launch' = [launch EXCEPT ![l] =
                Respond(r, IF outcome = "ok" THEN 200 ELSE 500)]
           /\ budget' = Charge(outcome)
  /\ UNCHANGED <<now, campaigns, cc, messages, documents, notifications,
                 transport, writes, pass, hook, flagSeen, create>>

\* res.json(...) / res.status(...).json(...): the response is out.
LaunchReturn(l) ==
  /\ launch[l].pc = "done"
  /\ launch' = [launch EXCEPT ![l] = IdleLaunch]
  /\ UNCHANGED <<now, campaigns, cc, acc, messages, documents, notifications,
                 transport, writes, pass, hook, flagSeen, budget, create>>

LaunchStep(l) ==
  \/ LaunchQuota(l) \/ LaunchLoad(l) \/ LaunchSend(l)
  \/ LaunchActivate(l) \/ LaunchIncrement(l) \/ LaunchReturn(l)

(***************************************************************************)
(* POST /api/webhooks/twilio: one inbound message.                         *)
(***************************************************************************)
UnknownPhone == 0
Phones   == {UnknownPhone, 1}              \* the phone of client i is i
\* <<Body, NumMedia, MediaUrl0>> of the payload
Payloads == {<<"ok", "0", "">>, <<"where do i send it?", "0", "">>,
             <<"ok", "1", "url">>, <<"is this the right statement?", "1", "url">>}

\* webhook.From.replace('whatsapp:', '')
StripPrefix(from) == IF Len(from) > 0 /\ from[1] = "whatsapp:" THEN Tail(from) ELSE from

\* SELECT * FROM clients WHERE phone = $1
ClientsByPhone(phone) == {cl \in Clients : <<cl>> = phone}

\* The campaign lookup without its status = 'active' filter.
AnyCampaignsOf(cl) == {c \in Campaigns : <<c, cl>> \in DOMAIN cc}

\* The client's enrollments in a campaign with status 'active'
\* (ORDER BY c.created_at DESC LIMIT 1 takes the newest campaign: the highest id).
ActiveCampaignsOf(cl) ==
  {c \in Campaigns : <<c, cl>> \in DOMAIN cc /\ campaigns[c].status = "active"}

NewestOf(S) == CHOOSE c \in S : \A d \in S : d <= c

\* parseInt(webhook.NumMedia) > 0
HasMedia(h) == ToNumber(h.numMedia) > 0

fillerPhrases ==
  {"here you go", "here it is", "here", "attached", "sent", "done", "ok",
   "okay", "thanks", "thank you", "ty", "there you go", "sent it", "sending",
   "image", "file", "pdf", "screenshot", "pic", "photo"}

\* lowerMsg.includes(phrase)
Includes(str, phrase) ==
  \E i \in 1..(Len(str) - Len(phrase) + 1) :
    SubSeq(str, i, i + Len(phrase) - 1) = phrase

\* shouldRespondToMessage(clientMessage, hasMedia); the bodies of the model
\* are in lower case and carry no outer blanks, so lowerMsg = clientMessage.
ShouldRespondToMessage(clientMessage, hasMedia) ==
  LET lowerMsg == clientMessage
  IN  IF /\ hasMedia
         /\ Len(lowerMsg) < 20
         /\ \E phrase \in fillerPhrases : Includes(lowerMsg, phrase)
      THEN FALSE
      ELSE IF Len(lowerMsg) < 3 \/ lowerMsg = "..." \/ lowerMsg = "."
      THEN FALSE
      ELSE TRUE

\* const shouldRespond = !hasMedia && await shouldRespondToMessage(...)
ShouldRespond(h) == ~HasMedia(h) /\ ShouldRespondToMessage(h.body, HasMedia(h))

\* A catch block that logs the error and sends nothing.
AckUnlessError(h, outcome) ==
  [h EXCEPT !.pc = "done", !.acks = IF outcome = "error" THEN @ ELSE @ + 1,
            !.outcome = outcome]

\* res.status(200).send(...): the acknowledgment, and the handler is over.
Ack(h, outcome) == [h EXCEPT !.pc = "done", !.acks = @ + 1, !.outcome = outcome]

\* The request arrives: SELECT the client by phone, then SELECT the client's
\* newest active campaign with its campaign_clients id.  The table clients
\* never changes, so the two awaits are one step.
HookLookup ==
  /\ Quiet
  /\ hook.pc = "idle"
  /\ budget.hooks > 0
  /\ \E phone \in Phones, payload \in Payloads, outcome \in Outcomes({"throw"}) :
       LET h == [IdleHook EXCEPT !.from = <<"whatsapp:", phone>>,
                                 !.body = payload[1], !.numMedia = payload[2],
                                 !.mediaUrl0 = payload[3]]
           found  == ClientsByPhone(StripPrefix(h.from))
           cl     == CHOOSE x \in found : TRUE
           active == ActiveCampaignsOf(cl)
       IN  /\ hook' = IF outcome = "throw" THEN Ack(h, "error")
                      ELSE IF found = {} THEN Ack(h, "unknown_sender")
                      ELSE IF active = {}
                      THEN Ack([h EXCEPT !.client = cl], "no_campaign")
                      ELSE [h EXCEPT !.pc = "handle", !.client = cl,
                                     !.campaign = NewestOf(active)]
           /\ budget' = [Charge(outcome) EXCEPT !.hooks = @ - 1]
  /\ UNCHANGED <<now, campaigns, cc, acc, messages, documents, notifications,
                 transport, writes, pass, launch, flagSeen, create>>

\* UPDATE campaign_clients SET status = 'received', received_at = NOW() WHERE id = $1
MarkReceived(e) ==
  [cc EXCEPT ![e] = [@ EXCEPT !.status = "received", !.received_at = now]]

\* The handler without its INSERT INTO documents.
HookCallsNoDocument(h) ==
  <<"message">>
  \o (IF HasMedia(h) /\ h.mediaUrl0 # "" THEN <<"update", "notify">> ELSE <<>>)
  \o (IF ShouldRespond(h) THEN <<"accountant", "send">> ELSE <<>>)

\* The awaited calls of the rest of the handler, in order.
HookCalls(h) ==
  <<"message">>
  \o (IF HasMedia(h) /\ h.mediaUrl0 # ""
      THEN <<"document", "update", "notify">> ELSE <<>>)
  \o (IF ShouldRespond(h) THEN <<"accountant", "send">> ELSE <<>>)

\* The call has returned: it is in the list before the one that threw.
Returned(calls, failAt, name) ==
  \E i \in 1..Len(calls) : calls[i] = name /\ (failAt = 0 \/ i < failAt)

\* The rest of the handler: INSERT the inbound message; with media, INSERT
\* the document, UPDATE campaign_clients, createNotification (processDocument
\* is started and not awaited); without media and when a reply is due,
\* SELECT the accountant, generateResponse (never throws), sendWhatsApp.
\* failAt is the call that throws (0: none); sendWhatsApp throws before
\* ("transport_fail") or after ("log_fail") the provider accepted.
HookHandle ==
  /\ Quiet
  /\ hook.pc = "handle"
  /\ LET e     == <<hook.campaign, hook.client>>
         calls == HookCalls(hook)
     IN  \E failAt \in 0..Len(calls), mode \in {"transport_fail", "log_fail"} :
           /\ failAt > 0 => budget.faults > 0
           /\ (failAt = 0 \/ calls[failAt] # "send") => mode = "transport_fail"
           /\ messages' =
                LET inbound == IF Returned(calls, failAt, "message")
                               THEN AddRow(messages,
                                           [client_id |-> hook.client,
                                            campaign_id |-> hook.campaign,
                                            direction |-> "inbound",
                                            status |-> "received"])
                               ELSE messages
                IN  IF Returned(calls, failAt, "send")
                    THEN AddRow(inbound, OutboundRow(e, "queued"))
                    ELSE IF failAt > 0 /\ calls[failAt] = "send"
                    THEN AddRow(inbound, OutboundRow(e, "failed"))
                    ELSE inbound
           /\ documents' = IF Returned(calls, failAt, "document")
                           THEN AddRow(documents,
                                       [client_id |-> hook.client,
                                        campaign_id |-> hook.campaign,
                                        conversion_status |-> "pending_upload"])
                           ELSE documents
           /\ cc' = IF Returned(calls, failAt, "update") THEN MarkReceived(e) ELSE cc
           /\ writes' = IF Returned(calls, failAt, "update")
                        THEN [writes EXCEPT ![<<"received_at", e>>] = @ + 1]
                        ELSE writes
           /\ notifications' = IF Returned(calls, failAt, "notify")
                               THEN AddRow(notifications,
                                           [type |-> "client_response",
                                            client_id |-> hook.client,
                                            campaign_id |-> hook.campaign])
                               ELSE notifications
           /\ transport' =
                IF \/ Returned(calls, failAt, "send")
                   \/ (failAt > 0 /\ calls[failAt] = "send" /\ mode = "log_fail")
                THEN [transport EXCEPT ![<<"reply", e>>] = @ + 1]
                ELSE transport
           /\ hook' = Ack(hook, IF failAt = 0 THEN "handled" ELSE "error")
           /\ budget' = IF failAt = 0 THEN budget ELSE Spend("faults")
  /\ UNCHANGED <<now, campaigns, acc, pass, launch, flagSeen, create>>

\* The response is out.
HookReturn ==
  /\ hook.pc = "done"
  /\ hook' = IdleHook
  /\ UNCHANGED <<now, campaigns, cc, acc, messages, documents, notifications,
                 transport, writes, pass, launch, flagSeen, budget, create>>

HookStep == HookLookup \/ HookHandle \/ HookReturn

(***************************************************************************)
(* PATCH /api/campaigns/:id/status and PATCH /api/campaigns/:id.           *)
(***************************************************************************)
Statuses == {"draft", "active", "completed"}

\* UPDATE campaigns SET status = $1, completed_at = ... WHERE id = $2
PatchStatus ==
  /\ Quiet
  /\ budget.patches > 0
  /\ \E c \in DOMAIN campaigns, status \in Statuses :
       campaigns' = [campaigns EXCEPT ![c] =
                       [@ EXCEPT !.status = status,
                                 !.completed_at = IF status = "completed"
                                                  THEN now ELSE @]]
  /\ budget' = Spend("patches")
  /\ UNCHANGED <<now, cc, acc, messages, documents, notifications,
                 transport, writes, pass, launch, hook, flagSeen, create>>

\* <<column, value>> of the requests of the model
ConfigPatches ==
  {<<"reminder_day_3", FALSE>>, <<"flag_after_day_9", TRUE>>,
   <<"flag_after_day_9", FALSE>>, <<"reminder_3_days", DefaultDays1>>}

\* UPDATE campaigns SET <column> = $1 WHERE id = $2
PatchConfig ==
  /\ Quiet
  /\ budget.patches > 0
  /\ \E c \in Campaigns, patch \in ConfigPatches :
       /\ campaigns' = [campaigns EXCEPT ![c] = [@ EXCEPT ![patch[1]] = patch[2]]]
       /\ flagSeen' = [flagSeen EXCEPT ![c] = @ \/ campaigns'[c].flag_after_day_9]
  /\ budget' = Spend("patches")
  /\ UNCHANGED <<now, cc, acc, messages, documents, notifications,
                 transport, writes, pass, launch, hook, create>>

(***************************************************************************)
(* POST /api/campaigns: INSERT INTO campaigns with status 'draft', then,   *)
(* when client_ids is a non-empty array, one INSERT INTO campaign_clients  *)
(* for all of them; the two statements are not in a transaction.  The new  *)
(* campaign takes the next id.                                             *)
(***************************************************************************)
CreateCampaign ==
  /\ Quiet
  /\ create.pc = "idle"
  /\ Len(campaigns) < Cardinality(Campaigns)
  /\ \E r3 \in BOOLEAN, f9 \in BOOLEAN, st \in SendTimes,
        ids \in SUBSET Clients, outcome \in Outcomes({"throw"}) :
       LET c == Len(campaigns) + 1
       IN  /\ campaigns' = IF outcome = "ok"
                           THEN Append(campaigns, NewCampaign(r3, TRUE, f9, st))
                           ELSE campaigns
           /\ flagSeen' = IF outcome = "ok"
                          THEN [flagSeen EXCEPT ![c] = f9] ELSE flagSeen
           /\ create' = IF outcome = "ok" /\ ids # {}
                        THEN [pc |-> "clients", campaign |-> c, client_ids |-> ids]
                        ELSE IdleCreate
           /\ budget' = Charge(outcome)
  /\ UNCHANGED <<now, cc, acc, messages, documents, notifications,
                 transport, writes, pass, launch, hook>>

\* INSERT INTO campaign_clients (campaign_id, client_id) VALUES ...: the
\* other columns take their defaults.
CreateClients ==
  /\ Quiet
  /\ create.pc = "clients"
  /\ \E outcome \in Outcomes({"throw"}) :
       LET new == {create.campaign} \X create.client_ids
       IN  /\ cc' = IF outcome = "ok"
                    THEN [e \in DOMAIN cc \cup new |->
                            IF e \in new THEN NewEnrollment ELSE cc[e]]
                    ELSE cc
           /\ budget' = Charge(outcome)
  /\ create' = IdleCreate
  /\ UNCHANGED <<now, campaigns, acc, messages, documents, notifications,
                 transport, writes, pass, launch, hook, flagSeen>>

CreateStep == CreateCampaign \/ CreateClients

(***************************************************************************)
(* Specifications.                                                         *)
(***************************************************************************)
\* A launched campaign: the clock, the scheduler, inbound messages and the
\* PATCH endpoints.
Next == Tick \/ PassStep(1) \/ HookStep \/ PatchStatus \/ PatchConfig

Spec == Init /\ [][Next]_vars

\* Two scheduler passes that overlap.
NextOverlap == Tick \/ \E p \in Passes : PassStep(p)

SpecOverlap == Init /\ [][NextOverlap]_vars

\* A draft campaign and its launch.
NextLaunch == Tick \/ LaunchStep(1) \/ PassStep(1) \/ HookStep

SpecLaunch == InitLaunch /\ [][NextLaunch]_vars

(***************************************************************************)
(* flagFailedClients run twice in a row, from the stores a launched        *)
(* campaign can be in twelve days after its launch.                        *)
(***************************************************************************)
FlagClock == StartOfDay + 12 * MinutesPerDay

\* The rows an enrollment can hold by then: never launched, launched,
\* reminded on day 3, document received on day 3, flagged on day 9.
StoreRows ==
  LET launched == [NewEnrollment EXCEPT !.first_message_sent_at = StartOfDay]
  IN  { NewEnrollment,
        launched,
        [launched EXCEPT !.reminder_3_sent_at = StartOfDay + 3 * MinutesPerDay],
        [launched EXCEPT !.status = "received",
                         !.received_at = StartOfDay + 3 * MinutesPerDay],
        [launched EXCEPT !.status = "failed",
                         !.stuck_at = StartOfDay + 9 * MinutesPerDay] }

InitStore ==
  /\ now = FlagClock
  /\ \E f9 \in BOOLEAN, status \in {"active", "completed"} :
       /\ campaigns = [c \in Campaigns |->
                         [NewCampaign(TRUE, TRUE, f9, "10:00:00")
                            EXCEPT !.status = status,
                                   !.completed_at = IF status = "completed"
                                                    THEN FlagClock ELSE Null]]
       /\ flagSeen = [c \in Campaigns |-> TRUE]
  /\ cc \in [Enrollments -> StoreRows]
  /\ acc = [NewAccountant EXCEPT !.chases_used = 1]
  /\ writes = [x \in Columns \X Enrollments |->
                 IF cc[x[2]][x[1]] # Null THEN 1 ELSE 0]
  /\ transport = [x \in Kinds \X Enrollments |->
                    IF \/ x[1] = "request" /\ cc[x[2]].first_message_sent_at # Null
                       \/ x[1] = "reminder1" /\ cc[x[2]].reminder_3_sent_at # Null
                    THEN 1 ELSE 0]
  /\ messages =
       LET out == {e \in Enrollments : cc[e].first_message_sent_at # Null}
           inb == {e \in Enrollments : cc[e].status = "received"}
       IN  [row \in {OutboundRow(e, "queued") : e \in out} |->
              IF \E e \in out : row = OutboundRow(e, "queued")
                                /\ cc[e].reminder_3_sent_at # Null
              THEN 2 ELSE 1]
           (+) SetToBag({[client_id |-> e[2], campaign_id |-> e[1],
                          direction |-> "inbound", status |-> "received"]
                         : e \in inb})
  /\ documents =
       SetToBag({[client_id |-> e[2], campaign_id |-> e[1],
                  conversion_status |-> "pending_upload"]
                 : e \in {f \in Enrollments : cc[f].status = "received"}})
  /\ notifications =
       SetToBag({[type |-> "client_response", client_id |-> e[2],
                  campaign_id |-> e[1]]
                 : e \in {f \in Enrollments : cc[f].status = "received"}})

InitFlag == InitStore /\ InitProcesses /\ InitBudget

NextFlag == PassBegin(1, 3) \/ PassFlag(1) \/ PassReturn(1)

SpecFlag == InitFlag /\ [][NextFlag]_vars

(***************************************************************************)
(* Inbound messages one after the other, with the clock.                   *)
(***************************************************************************)
InitInbound ==
  /\ InitLaunched
  /\ InitProcesses
  /\ budget = [ticks |-> MaxTicks, passes |-> 0, hooks |-> MaxInbound,
               launches |-> 0, patches |-> 0, faults |-> MaxFaults]

NextInbound == Tick \/ HookStep

SpecInbound == InitInbound /\ [][NextInbound]_vars

(***************************************************************************)
(* The lifecycle of a campaign: launch requests, possibly two at a time,   *)
(* and PATCH /:id/status, for an accountant below or at the chase limit.   *)
(***************************************************************************)
Plans == {"free", "pro"}

InitLifecycle ==
  /\ now = StartOfDay
  /\ campaigns = [c \in Campaigns |-> NewCampaign(TRUE, TRUE, TRUE, "10:00:00")]
  /\ flagSeen = [c \in Campaigns |-> TRUE]
  /\ cc = [e \in Enrollments |-> NewEnrollment]
  /\ \E plan \in Plans, used \in {0, DefaultChaseLimit - 1, DefaultChaseLimit} :
       acc = [NewAccountant EXCEPT !.subscription_plan = plan,
                                   !.chases_used = used]
  /\ messages = EmptyBag
  /\ documents = EmptyBag
  /\ notifications = EmptyBag
  /\ transport = [x \in Kinds \X Enrollments |-> 0]
  /\ writes = [x \in Columns \X Enrollments |-> 0]
  /\ InitProcesses
  /\ budget = [ticks |-> MaxTicks, passes |-> 0, hooks |-> 0,
               launches |-> MaxRequests, patches |-> MaxPatches,
               faults |-> MaxFaults]

NextLifecycle == Tick \/ PatchStatus \/ \E l \in Launchers : LaunchStep(l)

SpecLifecycle == InitLifecycle /\ [][NextLifecycle]_vars

(***************************************************************************)
(* The send-time window: passes over a campaign launched a week before,    *)
(* for send-times and wall clocks near each other, an hour apart, and on   *)
(* the two sides of midnight.                                              *)
(***************************************************************************)
WindowSendTimes == {"23:30:00", "00:30:00", "09:15:00", "10:00:00", "14:30:00"}

\* 00:15, 10:15 and 23:45 of the seventh day after the launch
WindowClocks ==
  {7 * MinutesPerDay + tod : tod \in {15, 10 * MinutesPerHour + 15,
                                      23 * MinutesPerHour + 45}}

InitWindow ==
  /\ now \in WindowClocks
  /\ \E st \in WindowSendTimes :
       campaigns = [c \in Campaigns |->
                      [NewCampaign(TRUE, TRUE, TRUE, st) EXCEPT !.status = "active"]]
  /\ flagSeen = [c \in Campaigns |-> TRUE]
  /\ cc = [e \in Enrollments |->
             [NewEnrollment EXCEPT !.first_message_sent_at = StartOfDay]]
  /\ acc = [NewAccountant EXCEPT !.chases_used = 1]
  /\ messages = [row \in {OutboundRow(e, "queued") : e \in Enrollments} |-> 1]
  /\ documents = EmptyBag
  /\ notifications = EmptyBag
  /\ transport = [x \in Kinds \X Enrollments |-> IF x[1] = "request" THEN 1 ELSE 0]
  /\ writes = [x \in Columns \X Enrollments |->
                 IF x[1] = "first_message_sent_at" THEN 1 ELSE 0]
  /\ InitProcesses
  /\ InitBudget

NextWindow == (\E k \in {1, 2} : PassBegin(1, k)) \/ PassSend(1) \/ PassReturn(1)

SpecWindow == InitWindow /\ [][NextWindow]_vars

\* The cron job: whole runs of runAllReminderChecks as the days pass.
NextChain == Tick \/ ChainStep(1)

SpecChain == Init /\ [][NextChain]_vars

\* The cron job for as long as the process lives, with inbound messages:
\* the clock keeps advancing up to its bound, a run that can take a step
\* takes it, and a webhook request in flight is answered.
InitLive ==
  /\ InitLaunched
  /\ InitProcesses
  /\ budget = [ticks |-> MaxTicks, passes |-> 0, hooks |-> MaxHooks,
               launches |-> 0, patches |-> 0, faults |-> MaxFaults]

NextLive == Tick \/ CronStep(1) \/ HookStep

\* When a function of the run can be called: these are the guards of
\* CronBegin and ChainNext, both of which change `pass` whenever they are
\* taken.
CronEnabled(p)  == Quiet /\ pass[p].pc = "idle"
ChainEnabled(p) == pass[p].pc = "done" /\ pass[p].tier \in {1, 2}

\* Weak fairness of the calls, WF_vars(CronBegin(p)) and
\* WF_vars(ChainNext(p)), with ENABLED written out as the guards above.
CronFair(p) ==
  /\ []<>(~CronEnabled(p)) \/ []<><<CronBegin(p)>>_vars
  /\ []<>(~ChainEnabled(p)) \/ []<><<ChainNext(p)>>_vars

SpecLive ==
  /\ InitLive
  /\ [][NextLive]_vars
  /\ SF_vars(Tick)
  /\ CronFair(1)
  /\ WF_vars(PassSend(1) \/ PassFlag(1) \/ ChainReturn(1))
  /\ WF_vars(HookHandle \/ HookReturn)

\* An empty store: campaigns are created, patched and launched.
InitCreate ==
  /\ now = StartOfDay
  /\ campaigns = <<>>
  /\ flagSeen = [c \in Campaigns |-> FALSE]
  /\ cc = <<>>
  /\ acc = NewAccountant
  /\ messages = EmptyBag
  /\ documents = EmptyBag
  /\ notifications = EmptyBag
  /\ transport = [x \in Kinds \X Enrollments |-> 0]
  /\ writes = [x \in Columns \X Enrollments |-> 0]
  /\ InitProcesses
  /\ InitBudget

NextCreate == CreateStep \/ PatchStatus \/ LaunchStep(1)

SpecCreate == InitCreate /\ [][NextCreate]_vars

\* flagFailedClients run once at several times of the day, twelve days after
\* the launch, over a store drawn from the rows an enrollment can hold.
GiveUpClocks ==
  {12 * MinutesPerDay + tod : tod \in {15, 10 * MinutesPerHour + 15,
                                       23 * MinutesPerHour + 45}}

InitGiveUp ==
  /\ now \in GiveUpClocks
  /\ \E f9 \in BOOLEAN, st \in SendTimes :
       /\ campaigns = [c \in Campaigns |->
                         [NewCampaign(TRUE, TRUE, f9, st) EXCEPT !.status = "active"]]
       /\ flagSeen = [c \in Campaigns |-> f9]
  /\ cc \in [Enrollments -> StoreRows]
  /\ acc = [NewAccountant EXCEPT !.chases_used = 1]
  /\ writes = [x \in Columns \X Enrollments |->
                 IF cc[x[2]][x[1]] # Null THEN 1 ELSE 0]
  /\ transport = [x \in Kinds \X Enrollments |->
                    IF \/ x[1] = "request" /\ cc[x[2]].first_message_sent_at # Null
                       \/ x[1] = "reminder1" /\ cc[x[2]].reminder_3_sent_at # Null
                    THEN 1 ELSE 0]
  /\ messages =
       [row \in {OutboundRow(e, "queued")
                 : e \in {f \in Enrollments : cc[f].first_message_sent_at # Null}} |->
          IF \E e \in Enrollments : row = OutboundRow(e, "queued")
                                    /\ cc[e].reminder_3_sent_at # Null
          THEN 2 ELSE 1]
       (+) SetToBag({[client_id |-> e[2], campaign_id |-> e[1],
                      direction |-> "inbound", status |-> "received"]
                     : e \in {f \in Enrollments : cc[f].status = "received"}})
  /\ documents =
       SetToBag({[client_id |-> e[2], campaign_id |-> e[1],
                  conversion_status |-> "pending_upload"]
                 : e \in {f \in Enrollments : cc[f].status = "received"}})
  /\ notifications =
       SetToBag({[type |-> "client_response", client_id |-> e[2],
                  campaign_id |-> e[1]]
                 : e \in {f \in Enrollments : cc[f].status = "received"}})
  /\ InitProcesses
  /\ budget = [ticks |-> 0, passes |-> 1, hooks |-> 0, launches |-> 0,
               patches |-> 0, faults |-> MaxFaults]

NextGiveUp == PassBegin(1, 3) \/ PassFlag(1) \/ PassReturn(1)

SpecGiveUp == InitGiveUp /\ [][NextGiveUp]_vars

\* The scheduler's queries as the clock moves through one send window: the
\* clock advances by days and by quarters of an hour, passes run in between.
TickQuarter ==
  /\ Quiet
  /\ now % MinutesPerDay < StartOfDay + MaxQuarters * QuarterMinutes
  /\ now' = now + QuarterMinutes
  /\ UNCHANGED <<campaigns, cc, acc, messages, documents, notifications,
                 transport, writes, pass, launch, hook, flagSeen, budget, create>>

NextMonotone == Tick \/ TickQuarter \/ PassStep(1)

SpecMonotone == Init /\ [][NextMonotone]_vars

(***************************************************************************)
(* Properties.                                                             *)
(***************************************************************************)
Terminal == {"received", "failed"}

\* C1: the status of an enrollment is terminal once it is 'received' or
\* 'failed': no step changes a status that is 'received' or 'failed'.
C1_StatusTerminal ==
  [][\A e \in Enrollments :
       cc[e].status \in Terminal => cc'[e].status = cc[e].status]_vars

\* C2: a scheduler pass leaves every enrollment that was 'received' or
\* 'failed' when the pass ran its query as it is: no step of the pass changes
\* the enrollment's status, reminder timestamps or stuck_at, and none hands a
\* reminder for it to the transport.
C2_TerminalUntouched ==
  [][\A p \in Passes :
       pass'[p] # pass[p] =>
         /\ pass[p].pc = "idle" => (cc' = cc /\ transport' = transport)
         /\ pass[p].pc \in {"send", "flag"} =>
              \A e \in Enrollments :
                pass[p].seenCC[e].status \in Terminal =>
                  /\ cc'[e].status = cc[e].status
                  /\ cc'[e].reminder_3_sent_at = cc[e].reminder_3_sent_at
                  /\ cc'[e].reminder_6_sent_at = cc[e].reminder_6_sent_at
                  /\ cc'[e].stuck_at = cc[e].stuck_at
                  /\ \A k \in {1, 2} :
                       transport'[<<ReminderKind(k), e>>]
                         = transport[<<ReminderKind(k), e>>]]_vars

\* A pass has sent a reminder while another enrollment was already terminal.
C2_Witness ==
  /\ pass[1].pc = "done"
  /\ pass[1].success >= 1
  /\ \E e \in Enrollments : pass[1].seenCC[e].status \in Terminal

\* C3: an enrollment whose first_message_sent_at is null has both reminder
\* timestamps null, stuck_at null and a status other than 'failed'.
C3_UnlaunchedUntouched ==
  \A e \in Enrollments :
    cc[e].first_message_sent_at = Null =>
      /\ cc[e].reminder_3_sent_at = Null
      /\ cc[e].reminder_6_sent_at = Null
      /\ cc[e].stuck_at = Null
      /\ cc[e].status # "failed"

\* A pass has stamped a reminder in a campaign one of whose enrollments was
\* never launched.
C3_Witness ==
  \E e, f \in Enrollments :
    /\ cc[e].first_message_sent_at = Null
    /\ e[1] = f[1]
    /\ cc[f].reminder_3_sent_at # Null

\* C4: for every enrollment and tier k in {1, 2}, the tier's timestamp is
\* written at most once and the tier's reminder is handed to the transport
\* at most once.
C4_AtMostOnce ==
  \A e \in Enrollments, k \in {1, 2} :
    /\ writes[<<ReminderColumn(k), e>>] <= 1
    /\ transport[<<ReminderKind(k), e>>] <= 1

\* C5: (a) a tier-1 pass run at 10:15 over a pending enrollment of a campaign
\* with tier 1 enabled, reminder_1_days = 3 and send-time 10:00, whose
\* first_message_sent_at is exactly 3 days before the clock, and in which
\* nothing fails, hands exactly one reminder for the enrollment to the
\* transport and stamps its tier-1 timestamp; (b) a tier-1 pass that begins
\* when the timestamp is stamped does not select the enrollment, sends it
\* nothing and changes none of its fields.
C5_Case(e, rows, camp, t) ==
  /\ rows[e].status = "pending"
  /\ rows[e].reminder_3_sent_at = Null
  /\ camp[e[1]].reminder_day_3 = TRUE
  /\ camp[e[1]].reminder_1_days = 3
  /\ camp[e[1]].reminder_send_time = "10:00:00"
  /\ rows[e].first_message_sent_at = t - 3 * MinutesPerDay
  /\ t % MinutesPerDay = 10 * MinutesPerHour + 15

C5_FirstRun ==
  \A p \in Passes :
    (pass[p].pc = "done" /\ pass[p].tier = 1 /\ pass[p].errors = <<>>) =>
      LET none == pass[p].rows = <<>>
          rows == IF none THEN cc ELSE pass[p].seenCC
          camp == IF none THEN campaigns ELSE pass[p].seenCamp
          t    == IF none THEN now ELSE pass[p].seenNow
      IN  \A e \in Enrollments :
            C5_Case(e, rows, camp, t) =>
              /\ Cardinality({i \in 1..Len(pass[p].handed) : pass[p].handed[i] = e}) = 1
              /\ cc[e].reminder_3_sent_at # Null

C5_SecondRun ==
  \A p \in Passes :
    (pass'[p] # pass[p] /\ pass[p].pc = "send" /\ pass[p].tier = 1) =>
      \A e \in Enrollments :
        pass[p].seenCC[e].reminder_3_sent_at # Null =>
          /\ e \notin Range(pass[p].rows)
          /\ cc'[e] = cc[e]
          /\ transport'[<<"reminder1", e>>] = transport[<<"reminder1", e>>]

C5_SequentialRerun == []C5_FirstRun /\ [][C5_SecondRun]_vars

\* The second of two tier-1 passes at 10:15 on day 3 is over: the enrollment
\* was stamped at this clock by the first one and got one reminder in all.
C5_Witness ==
  /\ pass[1].pc = "done"
  /\ pass[1].tier = 1
  /\ pass[1].errors = <<>>
  /\ now % MinutesPerDay = 10 * MinutesPerHour + 15
  /\ campaigns[1].reminder_send_time = "10:00:00"
  /\ campaigns[1].reminder_1_days = 3
  /\ \E e \in Enrollments :
       /\ cc[e].first_message_sent_at = now - 3 * MinutesPerDay
       /\ cc[e].reminder_3_sent_at = now
       /\ cc[e].status = "pending"
       /\ e \notin Range(pass[1].handed)
       /\ transport[<<"reminder1", e>>] = 1

\* C6: when flagFailedClients has run without an error, a run of it that
\* follows at once (nothing in between, same clock) selects no row, reports
\* flagged = 0 and leaves the set of 'failed' enrollments as it was.
C6_Failed == {e \in Enrollments : cc[e].status = "failed"}

C6_Again ==
  (/\ pass'[1] # pass[1]
   /\ budget'.passes + 2 <= MaxPassRuns
   /\ budget'.faults = MaxFaults) =>
     /\ C6_Failed' = C6_Failed
     /\ pass'[1].pc = "done" => (pass'[1].flagged = 0 /\ pass'[1].rows = <<>>)

C6_FlagIdempotent == [][C6_Again]_vars

\* The second run is over and the first one had flagged an enrollment.
C6_Witness ==
  /\ pass[1].pc = "done"
  /\ budget.passes + 2 <= MaxPassRuns
  /\ budget.faults = MaxFaults
  /\ \E e \in Enrollments : cc[e].status = "failed" /\ cc[e].stuck_at = now

\* C7: while flag_after_day_9 of a campaign has never been true, none of its
\* enrollments has status 'failed'.
C7_NeverFailedWhenDisabled ==
  \A e \in Enrollments : ~flagSeen[e[1]] => cc[e].status # "failed"

\* A flag run is over, the flag was never on, and a pending enrollment is
\* past the tier-3 offset.
C7_Witness ==
  /\ pass[1].pc = "done"
  /\ pass[1].tier = 3
  /\ pass[1].errors = <<>>
  /\ \E e \in Enrollments :
       /\ ~flagSeen[e[1]]
       /\ cc[e].status = "pending"
       /\ Elapsed(cc[e], campaigns[e[1]].reminder_3_days, now)

\* C8: a launch of a draft campaign with N >= 1 enrolled clients that answers
\* 200 has attempted every client exactly once and reports
\* success + failed = N; the campaign is 'active'; of the enrollments that
\* were not launched before, those without an entry in the error list are
\* stamped and were handed to the transport, and those with an entry keep
\* first_message_sent_at null; when every entry is a transport failure, the
\* stamped enrollments are exactly those the transport accepted.  The step
\* that stamps an enrollment leaves its status 'pending'.
C8_Failures(r) == {r.errors[i][1] : i \in 1..Len(r.errors)}

C8_Result ==
  \A l \in Launchers :
    (launch[l].pc = "done" /\ launch[l].response = 200) =>
      LET r == launch[l]
          N == Len(r.rows)
      IN  /\ N >= 1
          /\ r.tried = r.rows
          /\ r.success + r.failed = N
          /\ r.failed = Len(r.errors)
          /\ campaigns[r.campaign].status = "active"
          /\ \A e \in Range(r.rows) :
               r.seenCC[e].first_message_sent_at = Null =>
                 /\ e \notin C8_Failures(r) =>
                      /\ cc[e].first_message_sent_at # Null
                      /\ transport[<<"request", e>>] >= 1
                 /\ e \in C8_Failures(r) => cc[e].first_message_sent_at = Null
                 /\ (\A i \in 1..Len(r.errors) : r.errors[i][2] = "transport_fail") =>
                      (cc[e].first_message_sent_at # Null
                         <=> transport[<<"request", e>>] >= 1)

C8_Stamp ==
  \A l \in Launchers, e \in Enrollments :
    (launch'[l] # launch[l]
     /\ cc'[e].first_message_sent_at # cc[e].first_message_sent_at) =>
       cc'[e].status = "pending"

C8_PartialLaunch == []C8_Result /\ [][C8_Stamp]_vars

\* A launch has answered 200 with one client sent to and one client failed.
C8_Witness ==
  /\ launch[1].pc = "done"
  /\ launch[1].response = 200
  /\ launch[1].success = 1
  /\ launch[1].failed = 1
  /\ \E e \in Enrollments : cc[e].first_message_sent_at = Null

\* C9: the webhook handler sends no acknowledgment before it is over and
\* exactly one when it is over, whatever the path (unknown sender, no active
\* campaign, handled, or a call that threw); and the rest of the handler
\* always ends it.
C9_Outcomes == {"unknown_sender", "no_campaign", "handled", "error"}

C9_Acks ==
  /\ hook.pc = "done" => (hook.acks = 1 /\ hook.outcome \in C9_Outcomes)
  /\ hook.pc # "done" => hook.acks = 0

C9_Ends == (hook.pc = "handle" /\ hook' # hook) => hook'.pc = "done"

C9_OneAcknowledgment == []C9_Acks /\ [][C9_Ends]_vars

\* The handler is over after one of its calls threw.
C9_Witness ==
  /\ hook.pc = "done"
  /\ hook.outcome = "error"
  /\ hook.acks = 1
  /\ hook.campaign # 0

\* C10: a request whose sender is no known client, or whose client has no
\* enrollment in a campaign with status 'active', is acknowledged at once and
\* leaves the tables, the transport and every enrollment as they were.
C10_Dropped(h) ==
  LET found == {cl \in Clients : <<cl>> = Tail(h.from)}
  IN  \A cl \in found :
        \A c \in Campaigns :
          <<c, cl>> \in DOMAIN cc => campaigns[c].status # "active"

C10_Frame ==
  (hook.pc = "idle" /\ hook'.pc # "idle" /\ C10_Dropped(hook')) =>
    /\ hook'.pc = "done"
    /\ hook'.acks = 1
    /\ UNCHANGED <<campaigns, cc, acc, messages, documents, notifications,
                   transport, writes, create>>

C10_DroppedEventsNoEffect == [][C10_Frame]_vars

\* A request of a known client was dropped for want of an active campaign.
C10_Witness ==
  /\ hook.pc = "done"
  /\ hook.outcome = "no_campaign"
  /\ hook.client \in Clients

\* C11: when an inbound message with one media attachment of a known client
\* is handled for an enrollment that is 'pending' and no call fails, the
\* handler adds one inbound row to messages and nothing else, one row with
\* conversion_status 'pending_upload' to documents, sets the enrollment to
\* 'received' with received_at not null, and adds one 'client_response'
\* notification.
C11_Media ==
  (/\ hook.pc = "handle"
   /\ hook'.pc = "done"
   /\ hook'.outcome = "handled"
   /\ hook.numMedia = "1"
   /\ hook.mediaUrl0 # ""
   /\ cc[<<hook.campaign, hook.client>>].status = "pending") =>
     LET e == <<hook.campaign, hook.client>>
     IN  /\ messages' = AddRow(messages, [client_id |-> hook.client,
                                          campaign_id |-> hook.campaign,
                                          direction |-> "inbound",
                                          status |-> "received"])
         /\ documents' = AddRow(documents, [client_id |-> hook.client,
                                            campaign_id |-> hook.campaign,
                                            conversion_status |-> "pending_upload"])
         /\ cc'[e].status = "received"
         /\ cc'[e].received_at # Null
         /\ notifications' = AddRow(notifications, [type |-> "client_response",
                                                    client_id |-> hook.client,
                                                    campaign_id |-> hook.campaign])
         /\ transport' = transport

C11_MediaArrival == [][C11_Media]_vars

\* A media message has been handled and its enrollment is 'received'.
C11_Witness ==
  /\ hook.pc = "done"
  /\ hook.outcome = "handled"
  /\ hook.numMedia = "1"
  /\ cc[<<hook.campaign, hook.client>>].status = "received"
  /\ cc[<<hook.campaign, hook.client>>].received_at = now
  /\ writes[<<"received_at", <<hook.campaign, hook.client>>>>] = 1
  /\ BagCardinality(documents) = 1

\* C12: no step changes the status or the received_at of an enrollment that
\* is 'received': a second media message leaves both as the first set them.
C12_ReceivedKept ==
  [][\A e \in Enrollments :
       cc[e].status = "received" =>
         /\ cc'[e].status = "received"
         /\ cc'[e].received_at = cc[e].received_at]_vars

\* C13: the status of a campaign only moves forward, draft -> active ->
\* completed; it becomes 'active' only by the launch's UPDATE; completed_at
\* is stamped when it becomes 'completed'; and at most one launch request of
\* a campaign is past the 'draft' test at any time.
C13_Order(status) ==
  CASE status = "draft" -> 0 [] status = "active" -> 1 [] status = "completed" -> 2

C13_Forward ==
  \A c \in Campaigns :
    /\ C13_Order(campaigns'[c].status) >= C13_Order(campaigns[c].status)
    /\ (campaigns'[c].status = "active" /\ campaigns[c].status # "active") =>
         \E l \in Launchers : launch[l].pc = "activate" /\ launch[l].campaign = c
    /\ (campaigns'[c].status = "completed" /\ campaigns[c].status # "completed") =>
         campaigns'[c].completed_at = now

C13_OneLaunch ==
  \A l, m \in Launchers :
    (/\ launch[l].pc \in {"send", "activate", "increment"}
     /\ launch[m].pc \in {"send", "activate", "increment"}
     /\ launch[l].campaign = launch[m].campaign) => l = m

C13_Lifecycle == [][C13_Forward]_vars /\ []C13_OneLaunch

\* C14: once a campaign is not 'draft', no step changes any of its fields
\* other than status and completed_at.
C14_ConfigFrozen ==
  [][\A c \in Campaigns :
       campaigns[c].status # "draft" =>
         [campaigns'[c] EXCEPT !.status = campaigns[c].status,
                               !.completed_at = campaigns[c].completed_at]
           = campaigns[c]]_vars

\* C15: first_message_sent_at is written at most once per enrollment, and only
\* while the enrollment is 'pending' with first_message_sent_at null; and an
\* enrollment whose send failed at launch, its first_message_sent_at null,
\* keeps it null.
C15_Write ==
  \A e \in Enrollments :
    /\ writes'[<<"first_message_sent_at", e>>] # writes[<<"first_message_sent_at", e>>] =>
         /\ cc[e].status = "pending"
         /\ cc[e].first_message_sent_at = Null
         /\ writes[<<"first_message_sent_at", e>>] = 0
    /\ (/\ BagIn(OutboundRow(e, "failed"), messages)
        /\ cc[e].first_message_sent_at = Null) =>
         cc'[e].first_message_sent_at = Null

C15_FirstSentOnce == [][C15_Write]_vars

\* C16: a launch request of a free-plan accountant with chases_used >=
\* chase_limit ends at its first step, not with 200, and leaves the tables
\* and the transport unchanged; 403 is answered at that first step only;
\* chases_used changes only by the launch's last UPDATE, by exactly 1, and a
\* free-plan launch answers 200 only from that UPDATE.
C16_Step(l) ==
  /\ (/\ launch[l].pc = "idle"
      /\ launch'[l].pc # "idle"
      /\ acc.subscription_plan = "free"
      /\ acc.chases_used >= acc.chase_limit) =>
        /\ launch'[l].pc = "done"
        /\ launch'[l].response # 200
        /\ UNCHANGED <<campaigns, cc, acc, messages, documents, notifications,
                       transport, writes, create>>
  /\ (launch'[l].response = 403 /\ launch[l].response # 403) =>
        launch[l].pc = "idle"
  /\ (launch'[l] # launch[l] /\ launch[l].pc # "increment") => acc' = acc
  /\ (launch'[l] # launch[l] /\ launch[l].pc = "increment") =>
        acc' \in {acc, [acc EXCEPT !.chases_used = @ + 1]}
  /\ (/\ launch'[l].pc = "done"
      /\ launch[l].pc # "done"
      /\ launch'[l].response = 200
      /\ launch'[l].plan = "free") =>
        /\ launch[l].pc = "increment"
        /\ acc' = [acc EXCEPT !.chases_used = @ + 1]

C16_Quota ==
  [][/\ \A l \in Launchers : C16_Step(l)
     /\ acc' # acc => \E l \in Launchers : launch'[l] # launch[l]]_vars

\* A launch request was rejected after an earlier launch used the last chase.
C16_Witness ==
  \E l \in Launchers :
    /\ launch[l].pc = "done"
    /\ launch[l].response = 403
    /\ acc.chases_used = acc.chase_limit
    /\ campaigns[launch[l].campaign].status = "active"
    /\ \E e \in Enrollments : writes[<<"first_message_sent_at", e>>] = 1

\* C17: a tier-1 or tier-2 pass whose query returns selects an otherwise
\* eligible enrollment if and only if the campaign's send-time is within 60
\* minutes of the wall-clock time of day, measured round the 24-hour clock
\* and with 60 minutes itself inside the window.
C17_Within(sendTime, t) ==
  LET parts == Split(sendTime)
      at    == ToNumber(parts[1]) * MinutesPerHour + ToNumber(parts[2])
      d     == Abs((t % MinutesPerDay) - at)
      round == IF d <= MinutesPerDay - d THEN d ELSE MinutesPerDay - d
  IN  round <= 60

C17_Selected ==
  \A p \in Passes :
    (/\ pass[p].pc = "idle"
     /\ pass'[p].pc # "idle"
     /\ pass'[p].tier \in {1, 2}
     /\ pass'[p].errors = <<>>) =>
       Range(pass'[p].rows)
         = {e \in Enrollments :
              /\ Eligible(pass'[p].tier, e, now)
              /\ C17_Within(campaigns[e[1]].reminder_send_time, now)}

C17_SendWindow == [][C17_Selected]_vars

\* C18: (a) the step of a tier-k pass (k in {1, 2}) in which the transport
\* send fails leaves the enrollment's row as it is, its tier-k timestamp
\* null, hands nothing to the transport, counts one more in failed and adds
\* the error; (b) a tier-k pass whose query returns selects every enrollment
\* with a failed send on record that is pending, has its tier-k timestamp
\* null, is past the tier's offset in a campaign with the tier enabled, and
\* is inside the send window.
C18_Stamp(row, k) == IF k = 1 THEN row.reminder_3_sent_at ELSE row.reminder_6_sent_at

C18_Failure ==
  \A p \in Passes :
    (/\ pass[p].pc = "send"
     /\ pass'[p] # pass[p]
     /\ Len(pass'[p].errors) > Len(pass[p].errors)
     /\ pass'[p].errors[Len(pass'[p].errors)][2] = "transport_fail") =>
       LET e == pass[p].rows[pass[p].idx]
       IN  /\ pass'[p].errors[Len(pass'[p].errors)][1] = e
           /\ pass'[p].failed = pass[p].failed + 1
           /\ pass'[p].success = pass[p].success
           /\ cc' = cc
           /\ C18_Stamp(cc'[e], pass[p].tier) = Null
           /\ transport' = transport

C18_Again ==
  \A p \in Passes :
    (/\ pass[p].pc = "idle"
     /\ pass'[p].pc # "idle"
     /\ pass'[p].tier \in {1, 2}
     /\ pass'[p].errors = <<>>) =>
       \A e \in Enrollments :
         (/\ BagIn(OutboundRow(e, "failed"), messages)
          /\ cc[e].status = "pending"
          /\ C18_Stamp(cc[e], pass'[p].tier) = Null
          /\ cc[e].first_message_sent_at # Null
          /\ cc[e].first_message_sent_at
               <= now - MinutesPerDay * (IF pass'[p].tier = 1
                                         THEN campaigns[e[1]].reminder_1_days
                                         ELSE campaigns[e[1]].reminder_2_days)
          /\ (IF pass'[p].tier = 1 THEN campaigns[e[1]].reminder_day_3
                                   ELSE campaigns[e[1]].reminder_day_6)
          /\ ShouldSendNow(campaigns[e[1]].reminder_send_time, now)) =>
            e \in Range(pass'[p].rows)

C18_RetryOnFailure == [][C18_Failure /\ C18_Again]_vars

\* A pass has sent and stamped a reminder for an enrollment whose earlier
\* reminder send had failed.
C18_Witness ==
  /\ pass[1].pc = "done"
  /\ pass[1].errors = <<>>
  /\ \E e \in Range(pass[1].handed) :
       /\ BagIn(OutboundRow(e, "failed"), messages)
       /\ transport[<<ReminderKind(pass[1].tier), e>>] = 1
       /\ C18_Stamp(cc[e], pass[1].tier) # Null

\* C19: a failure on one enrollment never stops a reminder pass. (a) While
\* the pass is in its loop, each of its steps handles the current row of an
\* unchanged cohort, writes no other enrollment's row, writes nothing at all
\* when it records a failure, and moves on to the next row, leaving the loop
\* only after the last one. (b) When the pass returns, every row of the
\* cohort was attempted exactly once: the cohort has no row twice, each row
\* has at most one error and was handed to the transport at most once, the
\* counts add up to the cohort size (success + failed for tiers 1 and 2,
\* flagged + errors for the flag pass), and each row without an error bears
\* the stamp of its tier.
C19_ErrorsOf(r, e) == {i \in 1..Len(r.errors) : r.errors[i][1] = e}

C19_HandedOf(r, e) == {i \in 1..Len(r.handed) : r.handed[i] = e}

C19_Stamped(e, k) ==
  CASE k = 1 -> cc[e].reminder_3_sent_at # Null
    [] k = 2 -> cc[e].reminder_6_sent_at # Null
    [] OTHER -> cc[e].stuck_at # Null

C19_Step ==
  \A p \in Passes :
    (pass[p].pc \in {"send", "flag"} /\ pass'[p] # pass[p]) =>
      LET r == pass[p]
          e == r.rows[r.idx]
      IN  /\ pass'[p].rows = r.rows
          /\ pass'[p].tier = r.tier
          /\ IF r.idx < Len(r.rows)
             THEN pass'[p].pc = r.pc /\ pass'[p].idx = r.idx + 1
             ELSE pass'[p].pc = "done"
          /\ \A o \in Enrollments \ {e} : cc'[o] = cc[o]
          /\ Len(pass'[p].errors) > Len(r.errors) => cc' = cc
          /\ (pass'[p].success + pass'[p].failed + pass'[p].flagged
                + (IF r.tier = 3 THEN Len(pass'[p].errors) ELSE 0))
             = (r.success + r.failed + r.flagged
                + (IF r.tier = 3 THEN Len(r.errors) ELSE 0)) + 1

C19_Returned ==
  \A p \in Passes :
    (pass[p].pc = "done" /\ pass[p].rows # <<>>) =>
      LET r == pass[p]
          n == Len(r.rows)
      IN  /\ \A i, j \in 1..n : r.rows[i] = r.rows[j] => i = j
          /\ IF r.tier = 3
             THEN r.flagged + Len(r.errors) = n
             ELSE r.success + r.failed = n /\ r.failed = Len(r.errors)
          /\ \A i \in 1..n :
               LET e == r.rows[i]
               IN  /\ Cardinality(C19_ErrorsOf(r, e)) <= 1
                   /\ Cardinality(C19_HandedOf(r, e)) <= 1
                   /\ r.tier # 3 =>
                        (C19_ErrorsOf(r, e) # {} \/ C19_HandedOf(r, e) # {})
                   /\ C19_ErrorsOf(r, e) = {} => C19_Stamped(e, r.tier)

C19_FailureIsolation == []C19_Returned /\ [][C19_Step]_vars

\* A pass over two enrollments has returned: the first failed, the second
\* was sent and stamped after it.
C19_Witness ==
  /\ pass[1].pc = "done"
  /\ pass[1].tier \in {1, 2}
  /\ Len(pass[1].rows) = 2
  /\ pass[1].failed = 1
  /\ pass[1].success = 1
  /\ pass[1].errors[1][1] = pass[1].rows[1]
  /\ C19_Stamped(pass[1].rows[2], pass[1].tier)

\* C20: a step of a tier-k pass (k in {1, 2}) that hands a reminder for an
\* enrollment to the transport, or stamps its tier-k timestamp, is taken
\* only from a state in which the enrollment is pending, its tier-k
\* timestamp is null, its campaign has tier k enabled and at least the
\* campaign's tier-k offset in days has passed since first_message_sent_at.
C20_Due(e, k) ==
  LET camp == campaigns[e[1]]
  IN  /\ cc[e].status = "pending"
      /\ (IF k = 1 THEN cc[e].reminder_3_sent_at ELSE cc[e].reminder_6_sent_at) = Null
      /\ (IF k = 1 THEN camp.reminder_day_3 ELSE camp.reminder_day_6)
      /\ cc[e].first_message_sent_at # Null
      /\ now - cc[e].first_message_sent_at
           >= MinutesPerDay * (IF k = 1 THEN camp.reminder_1_days
                                        ELSE camp.reminder_2_days)

C20_Send ==
  \A p \in Passes :
    (pass[p].pc = "send" /\ pass'[p] # pass[p]) =>
      LET k == pass[p].tier
          e == pass[p].rows[pass[p].idx]
      IN  (\/ transport'[<<ReminderKind(k), e>>] # transport[<<ReminderKind(k), e>>]
           \/ cc'[e] # cc[e]) => C20_Due(e, k)

C20_GuardsAtSend == [][C20_Send]_vars

\* C21: one run of flagFailedClients, at any time of the day. (a) Its query
\* returns exactly the enrollments that are pending, have a first-message
\* timestamp, belong to a campaign with the flag enabled and are at least
\* the campaign's third offset in days past that timestamp, whatever the
\* campaign's send-time. (b) No step of the run hands anything to the
\* transport or logs a message. (c) When the run returns without an error,
\* each of those enrollments has status 'failed' and stuck_at = the time of
\* the run, and every other enrollment's row is as it was.
C21_Due(rows, camps, e, t) ==
  /\ rows[e].status = "pending"
  /\ rows[e].first_message_sent_at # Null
  /\ camps[e[1]].flag_after_day_9
  /\ t - rows[e].first_message_sent_at >= camps[e[1]].reminder_3_days * MinutesPerDay

C21_Query ==
  (/\ pass[1].pc = "idle"
   /\ pass'[1].pc # "idle"
   /\ pass'[1].tier = 3
   /\ pass'[1].errors = <<>>) =>
     Range(pass'[1].rows) = {e \in Enrollments : C21_Due(cc, campaigns, e, now)}

C21_Silent ==
  pass'[1] # pass[1] =>
    /\ transport' = transport
    /\ messages' = messages
    /\ campaigns' = campaigns

C21_Flagged ==
  (/\ pass[1].pc = "done"
   /\ pass[1].tier = 3
   /\ pass[1].rows # <<>>
   /\ pass[1].errors = <<>>) =>
     \A e \in Enrollments :
       cc[e] = IF C21_Due(pass[1].seenCC, pass[1].seenCamp, e, pass[1].seenNow)
               THEN [pass[1].seenCC[e] EXCEPT !.status = "failed",
                                              !.stuck_at = pass[1].seenNow]
               ELSE pass[1].seenCC[e]

C21_FlagStep == []C21_Flagged /\ [][C21_Query /\ C21_Silent]_vars

\* A run outside the campaign's send window has flagged one enrollment and
\* left the other, which was not pending, alone.
C21_Witness ==
  /\ pass[1].pc = "done"
  /\ pass[1].tier = 3
  /\ pass[1].errors = <<>>
  /\ pass[1].flagged = 1
  /\ ~ShouldSendNow(campaigns[1].reminder_send_time, now)
  /\ \E e \in Enrollments : cc[e].status = "failed" /\ cc[e].stuck_at = now
  /\ \E e \in Enrollments : cc[e].status = "received"

\* C22: eligibility for tier k (k in {1, 2}) is what the claim lists: pending,
\* first-message timestamp set, tier enabled, tier-k timestamp null, elapsed
\* time >= the tier's offset in days.  (a) While the clock advances and
\* neither the enrollment nor the campaign changes, an enrollment eligible
\* before the advance is eligible after it, and it is eligible at every
\* later quarter of an hour of that day, the ones inside the send window
\* included.  (b) An enrollment whose tier-k timestamp is set is not
\* eligible for tier k, now or at any later quarter of an hour.
C22_Listed(k, e, t) ==
  /\ cc[e].status = "pending"
  /\ cc[e].first_message_sent_at # Null
  /\ (IF k = 1 THEN campaigns[e[1]].reminder_day_3 ELSE campaigns[e[1]].reminder_day_6)
  /\ C18_Stamp(cc[e], k) = Null
  /\ t - cc[e].first_message_sent_at
       >= MinutesPerDay * (IF k = 1 THEN campaigns[e[1]].reminder_1_days
                                    ELSE campaigns[e[1]].reminder_2_days)

C22_Later == {now + q * QuarterMinutes : q \in 0..MaxQuarters}

C22_Query ==
  \A k \in {1, 2}, e \in Enrollments, t \in C22_Later :
    /\ Eligible(k, e, t) <=> C22_Listed(k, e, t)
    /\ Eligible(k, e, now) => Eligible(k, e, t)
    /\ (Eligible(k, e, now)
        /\ ShouldSendNow(campaigns[e[1]].reminder_send_time, t)) =>
          e \in ClientsToSend(k, t)
    /\ C18_Stamp(cc[e], k) # Null => ~Eligible(k, e, t)

C22_Advance ==
  \A k \in {1, 2}, e \in Enrollments :
    (/\ now' > now
     /\ cc'[e] = cc[e]
     /\ campaigns' = campaigns
     /\ Eligible(k, e, now)) => Eligible(k, e, now)'

C22_Stamping ==
  \A k \in {1, 2}, e \in Enrollments :
    (C18_Stamp(cc[e], k) = Null /\ C18_Stamp(cc'[e], k) # Null) =>
      /\ ~Eligible(k, e, now)'
      /\ C18_Stamp(cc'[e], k) = now

C22_Monotonic == []C22_Query /\ [][C22_Advance /\ C22_Stamping]_vars

\* Half an hour after the offset was reached, inside the send window: one
\* enrollment is still eligible for tier 1, the other was stamped earlier
\* and is not.
C22_Witness ==
  /\ now = StartOfDay + DefaultDays1 * MinutesPerDay + 2 * QuarterMinutes
  /\ ShouldSendNow(campaigns[1].reminder_send_time, now)
  /\ \E e, o \in Enrollments :
       /\ Eligible(1, e, now)
       /\ Eligible(1, e, now - 2 * QuarterMinutes)
       /\ cc[o].reminder_3_sent_at = now - QuarterMinutes
       /\ ~Eligible(1, o, now)

\* C23: when the launch endpoint answers with an error, no initial message
\* of the campaign has been handed to the transport and none of its
\* enrollments bears a first-message timestamp.
C23_AbortsBeforeSending ==
  \A l \in Launchers :
    (launch[l].pc = "done" /\ launch[l].response # 200) =>
      \A e \in Enrollments :
        e[1] = launch[l].campaign =>
          /\ transport[<<"request", e>>] = 0
          /\ cc[e].first_message_sent_at = Null

\* C24: a handled inbound event, none of whose calls throws, hands exactly
\* one reply to the transport when its text calls for one, with or without
\* media (it is not near-empty and, with media, not a short acknowledgment),
\* and none otherwise.
C24_Suppressed(text, media) ==
  \/ Len(text) < 3
  \/ text \in {".", "..."}
  \/ media /\ text \in fillerPhrases

C24_Replies ==
  (hook.pc = "handle" /\ hook'.pc = "done" /\ hook'.outcome = "handled") =>
    LET e == <<hook.campaign, hook.client>>
    IN  transport'[<<"reply", e>>] - transport[<<"reply", e>>]
          = IF C24_Suppressed(hook.body, HasMedia(hook)) THEN 0 ELSE 1

C24_ReplyPolicy == [][C24_Replies]_vars

\* C25: a step that adds a row to campaign_clients adds it to a campaign
\* that has status 'draft' when the row is added, and the new row has status
\* 'pending' and no timestamp.
C25_Insert ==
  \A e \in DOMAIN cc' \ DOMAIN cc :
    /\ e[1] \in DOMAIN campaigns
    /\ campaigns[e[1]].status = "draft"
    /\ cc'[e].status = "pending"
    /\ \A col \in Columns : cc'[e][col] = Null

C25_DraftOnly == [][C25_Insert]_vars

\* C26: a step of a scheduler pass that hands a reminder for an enrollment to
\* the transport, stamps one of its reminder timestamps or flags it 'failed'
\* is taken only while the enrollment's campaign has status 'active'.
C26_Acts(e) ==
  \/ transport'[<<"reminder1", e>>] # transport[<<"reminder1", e>>]
  \/ transport'[<<"reminder2", e>>] # transport[<<"reminder2", e>>]
  \/ cc'[e].reminder_3_sent_at # cc[e].reminder_3_sent_at
  \/ cc'[e].reminder_6_sent_at # cc[e].reminder_6_sent_at
  \/ cc'[e].stuck_at # cc[e].stuck_at
  \/ cc'[e].status = "failed" /\ cc[e].status # "failed"

C26_Live ==
  \A e \in Enrollments : C26_Acts(e) => campaigns[e[1]].status = "active"

C26_LiveCampaignsOnly == [][C26_Live]_vars

\* C27: every enrollment has status 'received' exactly when received_at is
\* set, and status 'failed' exactly when stuck_at is set.
C27_Consistent ==
  \A e \in DOMAIN cc :
    /\ cc[e].status = "received" <=> cc[e].received_at # Null
    /\ cc[e].status = "failed" <=> cc[e].stuck_at # Null

\* C28: on the free plan chases_used never exceeds chase_limit.
C28_QuotaRespected ==
  acc.subscription_plan = "free" => acc.chases_used <= ChaseLimit

\* C29: in a campaign with tiers 1 and 2 enabled and offsets 3 < 6 < 9 days,
\* (a) no enrollment has its tier-2 timestamp set while its tier-1 timestamp
\* is null, (b) no run of runAllReminderChecks hands two reminders for one
\* enrollment to the transport, and (c) no run flags an enrollment 'failed'
\* after handing a reminder for it to the transport.
C29_Ordered ==
  \A e \in Enrollments :
    cc[e].reminder_6_sent_at # Null => cc[e].reminder_3_sent_at # Null

C29_OneReminder ==
  \A e \in Enrollments : Cardinality(C19_HandedOf(pass[1], e)) <= 1

C29_Flag ==
  \A e \in Enrollments :
    (cc[e].status # "failed" /\ cc'[e].status = "failed") =>
      e \notin Range(pass[1].handed)

C29_TiersInOrder == [](C29_Ordered /\ C29_OneReminder) /\ [][C29_Flag]_vars

\* C30: under the fairness of SpecLive (the clock advances, the cron job
\* keeps running, finitely many calls fail), every enrollment that has a
\* first-message timestamp in a campaign with the flag step enabled
\* eventually has status 'received' or 'failed'.
C30_Terminates ==
  \A e \in Enrollments :
    (cc[e].first_message_sent_at # Null /\ campaigns[e[1]].flag_after_day_9)
      ~> (cc[e].status \in {"received", "failed"})

\* An enrollment without its first reminder has been flagged, after a call
\* of the scheduler had failed.
C30_Witness ==
  /\ budget.faults = 0
  /\ \E e \in Enrollments :
       /\ cc[e].status = "failed"
       /\ cc[e].stuck_at # Null
       /\ cc[e].reminder_3_sent_at = Null

====
